---- MODULE Spec2Model ----
(***************************************************************************)
(* A model of roadmail (src/src/roadmail/mail.py): the Mailer's send       *)
(* pipeline (send, send_template, send_bulk, send_async), its lifecycle    *)
(* hooks, its message table and statistics, the transports and the         *)
(* EmailBuilder.                                                           *)
(*                                                                         *)
(* Modelling conventions.                                                  *)
(*  - Python's None is the record None; every other Python value carries a *)
(*    "kind" field too, so that optional values can be compared.           *)
(*  - str(uuid.uuid4())[:12] is modelled as a fresh token: the n-th call   *)
(*    of uuid4() yields the token n.                                       *)
(*  - datetime.now() is one opaque value: times are not compared.          *)
(*  - A text (subject, body) is a sequence of segments: a literal piece    *)
(*    without braces, or one complete {{key}} placeholder.                 *)
(*  - A hook is one of a few named callables; calling it either returns or *)
(*    raises an Exception (HandlerRaises). Hooks do not write the Email.   *)
(*    A transport likewise returns or raises an Exception.                 *)
(*  - send passes its keyword arguments on to Email(...): the ones that    *)
(*    EmailBuilder.build() produces, and any other field of Email a caller *)
(*    names (status, sent_at, error, ...); a keyword Email does not take,  *)
(*    or takes from send already, makes the construction raise TypeError.  *)
(*  - Python lists are held by reference: the Emails made from a builder   *)
(*    hold the builder's cc, bcc and attachments lists (built), and a      *)
(*    later cc, bcc or attach on that builder changes them as well.        *)
(***************************************************************************)
EXTENDS Integers, Sequences, FiniteSets, TLC

VARIABLES
    transport,       \* Mailer.transport: which transport the mailer holds
    default_from,    \* Mailer.default_from
    templates,       \* Mailer.templates: template id -> EmailTemplate
    sent_emails,     \* Mailer.sent_emails: email id -> Email
    hooks,           \* Mailer.hooks: event -> sequence of handlers
    transport_sent,  \* the calls of transport.send, in order: id and outcome
    uuids,           \* number of uuid.uuid4() calls made so far
    builder,         \* the fields of one EmailBuilder
    built,           \* the ids of the Emails that hold the builder's own lists
    workers,         \* the executor threads running send for send_async
    last             \* the most recent call on the mailer: arguments, result, trace

vars == <<transport, default_from, templates, sent_emails, hooks,
          transport_sent, uuids, builder, built, workers, last>>

----------------------------------------------------------------------------
(* Bounds of the model. *)

\* The largest number of emails the message table is let grow to.
MaxEmails == 2

\* The largest number of hooks registered over the three events.
MaxHooks == 2

\* The largest number of argument sets given to one send_bulk call.
MaxBulk == 2

\* The number of concurrent send_async calls.
NumWorkers == 2

\* The largest number of values put into one EmailBuilder.
MaxFields == 3

\* The largest number of hooks registered while send_async calls run.
MaxAsyncHooks == 1

\* The largest number of emails sent from an EmailBuilder.
MaxBuilt == 1

----------------------------------------------------------------------------
(* Values. *)

None == [kind |-> "None"]

Str(s) == [kind |-> "str", value |-> s]

\* dataclass EmailAddress
EmailAddress(email, name) == [kind |-> "EmailAddress", email |-> email, name |-> name]

\* class EmailStatus
PENDING == "pending"
SENDING == "sending"
SENT == "sent"
FAILED == "failed"
EmailStatus == {PENDING, SENDING, SENT, FAILED,
                "bounced", "delivered", "opened", "clicked"}

\* The keys of Mailer.hooks.
Events == {"before_send", "after_send", "on_error"}

\* Text segments.
Lit(s) == [kind |-> "lit", value |-> s]
Ph(key) == [kind |-> "ph", key |-> key]

\* kwargs.get(key, default)
KwGet(kwargs, key, default) ==
    IF key \in DOMAIN kwargs THEN kwargs[key] ELSE default

\* An empty dict.
EmptyDict == [k \in {} |-> None]

\* dataclass Email, as Mailer.send constructs it: the fields send names, and
\* every other field from the keyword arguments passed through (rest) when
\* the caller gave it, from the dataclass's default when not. now is what
\* datetime.now() returns in the default of created_at.
Email(id, to, subject, body_text, body_html, from_addr, tracking_id, rest, now) ==
    [kind |-> "Email",
     id |-> id,
     to |-> to,
     subject |-> subject,
     body_text |-> body_text,
     body_html |-> body_html,
     from_addr |-> from_addr,
     reply_to |-> KwGet(rest, "reply_to", None),
     cc |-> KwGet(rest, "cc", <<>>),
     bcc |-> KwGet(rest, "bcc", <<>>),
     attachments |-> KwGet(rest, "attachments", <<>>),
     headers |-> KwGet(rest, "headers", EmptyDict),
     status |-> KwGet(rest, "status", PENDING),
     created_at |-> KwGet(rest, "created_at", now),
     sent_at |-> KwGet(rest, "sent_at", None),
     error |-> KwGet(rest, "error", None),
     tracking_id |-> tracking_id,
     metadata |-> KwGet(rest, "metadata", EmptyDict)]

\* The fields of Email that send leaves to its keyword arguments.
EmailKwargs ==
    {"reply_to", "cc", "bcc", "attachments", "headers", "status",
     "created_at", "sent_at", "error", "metadata"}

\* Email(...) takes the keyword arguments of send: from_addr is read by send
\* itself, and every other keyword is a field of Email that send does not
\* pass already (id, to, subject, the bodies, tracking_id). Otherwise
\* Email(...) raises TypeError.
Accepted(kwargs) == DOMAIN kwargs \subseteq EmailKwargs \cup {"from_addr"}

\* def send(self, to, subject, body_text="", body_html="", **kwargs)
SendParams == {"self", "to", "subject", "body_text", "body_html"}

\* def send_template(self, template_id, to, context=None, **kwargs)
SendTemplateParams == {"self", "template_id", "to", "context"}

\* A call binds when no keyword argument names a parameter that the call
\* gives already; otherwise the call raises TypeError before the body runs.
Binds(params, kwargs) == DOMAIN kwargs \cap params = {}

----------------------------------------------------------------------------
(* EmailTemplate.render *)

\* One pass of str.replace(placeholder, str(value)) over a text: every segment
\* that is the placeholder {{key}} becomes the value.
Replace(text, key, value) ==
    [i \in 1..Len(text) |-> IF text[i] = Ph(key) THEN value ELSE text[i]]

\* The loop over context.items(), in insertion order: context is a sequence of
\* <<key, value>> pairs; the first n pairs applied to text.
RECURSIVE RenderText(_, _, _)
RenderText(text, context, n) ==
    IF n = 0 THEN text
    ELSE Replace(RenderText(text, context, n - 1), context[n][1], context[n][2])

\* EmailTemplate.render: (subject, body_text, body_html)
Render(template, context) ==
    [subject |-> RenderText(template.subject, context, Len(context)),
     body_text |-> RenderText(template.body_text, context, Len(context)),
     body_html |-> RenderText(template.body_html, context, Len(context))]

\* dataclass EmailTemplate
EmailTemplate(id, name, subject, body_text, body_html) ==
    [kind |-> "EmailTemplate", id |-> id, name |-> name, subject |-> subject,
     body_text |-> body_text, body_html |-> body_html]

----------------------------------------------------------------------------
(* Transports *)

\* What the network does to one SMTP session.
NetOutcomes == {"up", "down"}

Transports == {"mock", "smtp"}

\* MockTransport.send: records the email and returns True.
MockTransportSend(email) == [ok |-> TRUE, error |-> ""]

\* recipients = [addr.email for addr in email.to + email.cc + email.bcc]
SMTPRecipients(email) ==
    LET all == email.to \o email.cc \o email.bcc
    IN  [i \in 1..Len(all) |-> all[i].email]

\* SMTPTransport.send: the session is opened first and any network or protocol
\* failure is re-raised; the arguments of sendmail are then evaluated, and
\* email.from_addr.email raises AttributeError on a from_addr of None; sendmail
\* raises SMTPRecipientsRefused, whose str() is that of the empty dict of
\* refusals, when there is no recipient at all (all of none were refused).
SMTPTransportSend(email, net) ==
    IF net = "down" THEN [ok |-> FALSE, error |-> "Connection refused"]
    ELSE IF email.from_addr = None
         THEN [ok |-> FALSE, error |-> "'NoneType' object has no attribute 'email'"]
         ELSE IF SMTPRecipients(email) = <<>>
              THEN [ok |-> FALSE, error |-> "{}"]
              ELSE [ok |-> TRUE, error |-> ""]

\* self.transport.send(email): ok, or the exception raised (its str()).
TransportSend(kind, email, net) ==
    IF kind = "mock" THEN MockTransportSend(email)
    ELSE SMTPTransportSend(email, net)

----------------------------------------------------------------------------
(* Hooks *)

\* The callables registered as hooks: h1 returns, h2 raises.
Handlers == {"h1", "h2"}

HandlerRaises(h) == h = "h2"

\* str(e) of the exception a raising handler raises.
HandlerError == "hook exploded"

\* One invocation handler(email): what the handler sees of the email, and
\* whether the handler raises.
HookCall(event, i, handler, email) ==
    [kind |-> "hook", event |-> event, index |-> i, handler |-> handler,
     id |-> email.id, status |-> email.status,
     raises |-> HandlerRaises(handler), error |-> ""]

\* One invocation transport.send(email): what the transport sees of the email,
\* and whether it raises, with which error.
TransportCall(email, outcome) ==
    [kind |-> "transport", event |-> "send", index |-> 0, handler |-> "",
     id |-> email.id, status |-> email.status,
     raises |-> ~outcome.ok, error |-> outcome.error]

\* The "Hook error: ..." lines the except clause of _emit logs.
HookErrors(handlers) ==
    SelectSeq(handlers, HandlerRaises)

\* A variant of _emit with the try around the loop left out: the first
\* raising handler ends the loop and its exception leaves _emit.
RECURSIVE FirstRaising(_, _)
FirstRaising(handlers, i) ==
    IF i > Len(handlers) THEN 0
    ELSE IF HandlerRaises(handlers[i]) THEN i
    ELSE FirstRaising(handlers, i + 1)

EmitUncaught(handlers, event, email) ==
    LET k == FirstRaising(handlers, 1)
        n == IF k = 0 THEN Len(handlers) ELSE k
    IN  [calls |-> [i \in 1..n |-> HookCall(event, i, handlers[i], email)],
         logged |-> 0,
         raised |-> k # 0]

\* A variant of _emit that walks the handler list from its end.
EmitReversed(handlers, event, email) ==
    [calls |-> [i \in 1..Len(handlers) |->
                  HookCall(event, Len(handlers) + 1 - i,
                           handlers[Len(handlers) + 1 - i], email)],
     logged |-> Len(HookErrors(handlers)),
     raised |-> FALSE]

\* Mailer._emit: every handler of the event is called in list order, each
\* inside its own try/except Exception: a raising handler is logged and the
\* loop goes on, so _emit never raises.
\* calls: the invocations made; logged: the errors logged; raised: whether
\* _emit itself raises to its caller.
Emit(handlers, event, email) ==
    [calls |-> [i \in 1..Len(handlers) |-> HookCall(event, i, handlers[i], email)],
     logged |-> Len(HookErrors(handlers)),
     raised |-> FALSE]

----------------------------------------------------------------------------
(* Mailer.send *)

\* A variant of the id: a token that does not depend on the call, so that two
\* emails get the same id.
NewIdRepeated(n) == 1

\* str(uuid.uuid4())[:12] after n earlier calls of uuid4(): a fresh token.
NewId(n) == n + 1

\* datetime.now()
Now == [kind |-> "datetime", at |-> "now"]

\* A datetime of the past, as a caller may pass one.
Earlier == [kind |-> "datetime", at |-> "earlier"]

\* One element of `to`: a str, or an EmailAddress passed as it is.
Recipient(addr) ==
    IF addr.kind = "str" THEN EmailAddress(addr.value, "") ELSE addr

\* recipients = [EmailAddress(email=addr) if isinstance(addr, str) else addr ...]
Recipients(to) == [i \in 1..Len(to) |-> Recipient(to[i])]

\* {k: v for k, v in kwargs.items() if k != "from_addr"}
Rest(kwargs) == [k \in DOMAIN kwargs \ {"from_addr"} |-> kwargs[k]]

\* from_addr=kwargs.get("from_addr", self.default_from)
FromAddr(kwargs, dflt) == KwGet(kwargs, "from_addr", dflt)

\* The Email that send constructs, given the results of its two uuid4() calls.
ConstructWith(args, dflt, id, tracking_id) ==
    Email(id, Recipients(args.to), args.subject, args.body_text,
          args.body_html, FromAddr(args.kwargs, dflt), tracking_id,
          Rest(args.kwargs), Now)

\* The Email that send constructs when nothing runs between its two uuid4()
\* calls: the id and the tracking id are the next two tokens.
Construct(args, dflt, u) ==
    ConstructWith(args, dflt, NewId(u), NewId(u + 1))

\* email.status = EmailStatus.SENDING
Started(email) == [email EXCEPT !.status = SENDING]

\* email.status = EmailStatus.SENT; email.sent_at = datetime.now()
Succeeded(email) == [email EXCEPT !.status = SENT, !.sent_at = Now]

\* A variant of the except clause that records the error and forgets the status.
FailedUnmarked(email, err) == [email EXCEPT !.error = [kind |-> "str", value |-> err]]

\* email.status = EmailStatus.FAILED; email.error = str(e)
Failed(email, err) == [email EXCEPT !.status = FAILED, !.error = Str(err)]

\* A variant that stores the email only when it was sent.
StoreSentOnly(table, email) ==
    IF email.status = SENT THEN (email.id :> email) @@ table ELSE table

\* A variant that rebuilds the table around the email it stores.
StoreAlone(table, email) == (email.id :> email)

\* self.sent_emails[email.id] = email
Store(table, email) == (email.id :> email) @@ table

\* What the transport keeps of one call of its send: the email's id and
\* whether the call returned.
Received(email, outcome) == [id |-> email.id, ok |-> outcome.ok]

\* The state of a Mailer as one record.
Mailer ==
    [transport |-> transport, default_from |-> default_from,
     templates |-> templates, sent_emails |-> sent_emails, hooks |-> hooks,
     transport_sent |-> transport_sent, uuids |-> uuids]

\* Mailer.send on the mailer M, the network doing `net` to the transport.
\* The result is M after the call, with the call's outcome: result (the Email
\* returned, or None when send raises), trace (the hook and transport
\* invocations in order), logged and raised (whether send raises).
\*   before:  self._emit("before_send", email)
\*   try:     transport.send, status SENT, sent_at, self._emit("after_send")
\*   except:  status FAILED, error, self._emit("on_error")
\*   then:    the email is stored and returned.
\* When the call does not bind, send raises with nothing done. When
\* Email(...) raises, both uuid4() calls have been made (the arguments are
\* evaluated first) and send raises with nothing else done.
Send(M, args, net) ==
    IF ~Binds(SendParams, args.kwargs)
    THEN [transport |-> M.transport,
          default_from |-> M.default_from,
          templates |-> M.templates,
          hooks |-> M.hooks,
          sent_emails |-> M.sent_emails,
          transport_sent |-> M.transport_sent,
          uuids |-> M.uuids,
          result |-> None,
          trace |-> <<>>,
          logged |-> 0,
          raised |-> TRUE]
    ELSE IF ~Accepted(args.kwargs)
    THEN [transport |-> M.transport,
          default_from |-> M.default_from,
          templates |-> M.templates,
          hooks |-> M.hooks,
          sent_emails |-> M.sent_emails,
          transport_sent |-> M.transport_sent,
          uuids |-> M.uuids + 2,
          result |-> None,
          trace |-> <<>>,
          logged |-> 0,
          raised |-> TRUE]
    ELSE
    LET email == Construct(args, M.default_from, M.uuids)
        before == Emit(M.hooks["before_send"], "before_send", email)
        sending == Started(email)
        outcome == TransportSend(M.transport, sending, net)
        sent == Succeeded(sending)
        after == Emit(M.hooks["after_send"], "after_send", sent)
        \* the exception that ends the try block, if any
        excepted == (~outcome.ok) \/ after.raised
        failed == IF outcome.ok THEN Failed(sent, HandlerError)
                  ELSE Failed(sending, outcome.error)
        onerr == Emit(M.hooks["on_error"], "on_error", failed)
        final == IF excepted THEN failed ELSE sent
        raised == before.raised \/ (excepted /\ onerr.raised)
        trace == before.calls
                 \o (IF before.raised THEN <<>>
                     ELSE <<TransportCall(sending, outcome)>>
                          \o (IF outcome.ok THEN after.calls ELSE <<>>)
                          \o (IF excepted THEN onerr.calls ELSE <<>>))
        logged == before.logged
                  + (IF before.raised THEN 0
                     ELSE (IF outcome.ok THEN after.logged ELSE 0)
                          + (IF excepted THEN onerr.logged ELSE 0))
    IN  [transport |-> M.transport,
         default_from |-> M.default_from,
         templates |-> M.templates,
         hooks |-> M.hooks,
         sent_emails |-> IF raised THEN M.sent_emails
                         ELSE Store(M.sent_emails, final),
         transport_sent |-> IF before.raised THEN M.transport_sent
                            ELSE Append(M.transport_sent,
                                        Received(email, outcome)),
         uuids |-> M.uuids + 2,
         result |-> IF raised THEN None ELSE final,
         trace |-> trace,
         logged |-> logged,
         raised |-> raised]

----------------------------------------------------------------------------
(* The other operations of Mailer *)

\* A call that leaves the mailer M as it is and returns `result`.
Returned(M, result, logged) ==
    [transport |-> M.transport, default_from |-> M.default_from,
     templates |-> M.templates, hooks |-> M.hooks,
     sent_emails |-> M.sent_emails, transport_sent |-> M.transport_sent,
     uuids |-> M.uuids,
     result |-> result, trace |-> <<>>, logged |-> logged, raised |-> FALSE]

\* The arguments send_template passes to send.
Args(to, subject, body_text, body_html, kwargs) ==
    [to |-> to, subject |-> subject, body_text |-> body_text,
     body_html |-> body_html, kwargs |-> kwargs]

\* A variant of send_template without the early return: an unknown template
\* id is logged and an email with empty texts is sent all the same.
SendTemplateFallsThrough(M, template_id, to, context, kwargs, net) ==
    IF ~Binds(SendTemplateParams, kwargs)
    THEN [Returned(M, None, 0) EXCEPT !.raised = TRUE]
    ELSE IF template_id \notin DOMAIN M.templates
    THEN Send(M, Args(to, <<>>, <<>>, <<>>, kwargs), net)
    ELSE LET r == Render(M.templates[template_id], context)
         IN  Send(M, Args(to, r.subject, r.body_text, r.body_html, kwargs), net)

\* Mailer.send_template
SendTemplate(M, template_id, to, context, kwargs, net) ==
    IF ~Binds(SendTemplateParams, kwargs)
    THEN [Returned(M, None, 0) EXCEPT !.raised = TRUE]
    ELSE IF template_id \notin DOMAIN M.templates
    THEN Returned(M, None, 1)
    ELSE LET r == Render(M.templates[template_id], context)
         IN  Send(M, Args(to, r.subject, r.body_text, r.body_html, kwargs), net)

\* The list send_bulk returns.
List(items) == [kind |-> "list", items |-> items]

\* A variant of the loop of send_bulk that stops at the first email that failed.
RECURSIVE SendBulkStopsOnFailure(_, _, _, _)
SendBulkStopsOnFailure(M, emails, nets, n) ==
    IF n = 0 THEN Returned(M, List(<<>>), 0)
    ELSE LET prev == SendBulkStopsOnFailure(M, emails, nets, n - 1)
             k == Len(prev.result.items)
         IN  IF k > 0 /\ prev.result.items[k].status = FAILED THEN prev
             ELSE LET r == Send(prev, emails[n], nets[n])
                  IN  [r EXCEPT
                         !.result = List(Append(prev.result.items, r.result)),
                         !.trace = prev.trace \o r.trace,
                         !.logged = prev.logged + r.logged]

\* The loop of Mailer.send_bulk over the first n entries of emails, nets[i]
\* being what the network does during the i-th send. An exception out of a
\* send would end the loop and the call.
RECURSIVE SendBulkLoop(_, _, _, _)
SendBulkLoop(M, emails, nets, n) ==
    IF n = 0 THEN Returned(M, List(<<>>), 0)
    ELSE LET prev == SendBulkLoop(M, emails, nets, n - 1)
         IN  IF prev.raised THEN prev
             ELSE LET r == Send(prev, emails[n], nets[n])
                  IN  [r EXCEPT
                         !.result = IF r.raised THEN None
                                    ELSE List(Append(prev.result.items, r.result)),
                         !.trace = prev.trace \o r.trace,
                         !.logged = prev.logged + r.logged]

\* Mailer.send_bulk
SendBulk(M, emails, nets) == SendBulkLoop(M, emails, nets, Len(emails))

\* Mailer.get_email
GetEmail(M, email_id) ==
    IF email_id \in DOMAIN M.sent_emails THEN M.sent_emails[email_id] ELSE None

\* len([e for e in emails if e.status == status])
CountStatus(table, status) ==
    Cardinality({id \in DOMAIN table : table[id].status = status})

\* Mailer.stats
Stats(M) ==
    [kind |-> "stats",
     total |-> Cardinality(DOMAIN M.sent_emails),
     sent |-> CountStatus(M.sent_emails, SENT),
     failed |-> CountStatus(M.sent_emails, FAILED),
     pending |-> CountStatus(M.sent_emails, PENDING)]

\* Mailer.add_hook: the handler is appended when the event is a key of hooks.
AddHook(hs, event, handler) ==
    IF event \in DOMAIN hs
    THEN [hs EXCEPT ![event] = Append(@, handler)]
    ELSE hs

\* Mailer.register_template
RegisterTemplate(ts, template) == (template.id :> template) @@ ts

----------------------------------------------------------------------------
(* The inputs the operations are tried on *)

NoKwargs == [k \in {} |-> None]

\* send(to=["alice@example.com"], subject="Hello!", body_text=...)
ArgsPlain ==
    Args(<<Str("alice@example.com")>>, <<Lit("Hello!")>>,
         <<Lit("This is a test email.")>>, <<>>, NoKwargs)

\* send(to=[], subject="Hello!", body_text=...): no recipient at all.
ArgsNobody ==
    Args(<<>>, <<Lit("Hello!")>>, <<Lit("This is a test email.")>>, <<>>, NoKwargs)

\* The argument sets send_async is called with.
AsyncArgs == {ArgsPlain}

\* The template of example_usage.
Welcome ==
    EmailTemplate("welcome", "Welcome Email",
        <<Lit("Welcome to "), Ph("app_name"), Lit(", "), Ph("name"), Lit("!")>>,
        <<Lit("Hi "), Ph("name"), Lit(", welcome to "), Ph("app_name")>>,
        <<Lit("<h1>Hi "), Ph("name"), Lit(",</h1>")>>)

TemplateIds == {"welcome", "missing"}

\* send_template is called with this context and these recipients. A context
\* is a sequence of <<key, value>> in insertion order; the value of name is
\* itself the text of a placeholder.
WelcomeContext == << <<"name", Ph("app_name")>>, <<"app_name", Lit("BlackRoad")>> >>

WelcomeTo == <<Str("bob@example.com")>>

\* send(to=["bob@example.com"], subject=..., ...) with the texts a caller
\* rendered from the welcome template.
ArgsWelcome ==
    LET r == Render(Welcome, WelcomeContext)
    IN  Args(WelcomeTo, r.subject, r.body_text, r.body_html, NoKwargs)

\* The argument sets send is called with: one with a recipient and one
\* without any.
SendArgs == {ArgsWelcome, ArgsNobody}

\* The argument sets send_bulk is given a list of.
BulkArgs == {ArgsWelcome, ArgsNobody}

\* The events add_hook is called with: the three of the mailer and another.
HookEvents == Events \cup {"on_bounce"}

----------------------------------------------------------------------------
(* The calls on a Mailer, one action each *)

\* What a call leaves in `last`.
Call(op, input, r) ==
    [op |-> op, input |-> input, result |-> r.result, trace |-> r.trace,
     logged |-> r.logged, raised |-> r.raised]

\* The mailer's fields after a call with outcome r.
Commit(r) ==
    /\ transport' = r.transport
    /\ default_from' = r.default_from
    /\ templates' = r.templates
    /\ hooks' = r.hooks
    /\ sent_emails' = r.sent_emails
    /\ transport_sent' = r.transport_sent
    /\ uuids' = r.uuids

Size(table) == Cardinality(DOMAIN table)

HookCount(hs) == Len(hs["before_send"]) + Len(hs["after_send"]) + Len(hs["on_error"])

\* EmailBuilder.__init__
NewBuilder ==
    [to |-> <<>>, cc |-> <<>>, bcc |-> <<>>, subject |-> <<>>,
     body_text |-> <<>>, body_html |-> <<>>, attachments |-> <<>>,
     from |-> None, reply_to |-> None]

\* A thread of the executor that runs no send. pc is the statement of send
\* the thread is at, i the number of handlers its current _emit loop has
\* called, id the id drawn for its Email, err the exception it caught.
IdleWorker ==
    [pc |-> "idle", i |-> 0, args |-> None, id |-> 0, email |-> None,
     err |-> "", trace |-> <<>>, result |-> None]

Workers == 1..NumWorkers

\* Mailer.__init__, with either transport and the default default_from.
InitMailer ==
    /\ transport \in Transports
    /\ default_from = EmailAddress("noreply@example.com", "")
    /\ templates = [k \in {} |-> None]
    /\ sent_emails = [k \in {} |-> None]
    /\ hooks = [e \in Events |-> <<>>]
    /\ transport_sent = <<>>
    /\ uuids = 0

Init ==
    /\ InitMailer
    /\ builder = NewBuilder
    /\ built = {}
    /\ workers = [w \in Workers |-> IdleWorker]
    /\ last = Call("init", None, Returned(Mailer, None, 0))

\* mailer.add_hook(event, handler)
DoAddHook(event, handler) ==
    /\ HookCount(hooks) < MaxHooks
    /\ Commit([Returned(Mailer, None, 0) EXCEPT !.hooks = AddHook(hooks, event, handler)])
    /\ last' = Call("add_hook", None, Returned(Mailer, None, 0))
    /\ UNCHANGED <<builder, built, workers>>

\* mailer.register_template(template)
DoRegisterTemplate(template) ==
    /\ Commit([Returned(Mailer, None, 0) EXCEPT
                 !.templates = RegisterTemplate(templates, template)])
    /\ last' = Call("register_template", None, Returned(Mailer, None, 0))
    /\ UNCHANGED <<builder, built, workers>>

\* mailer.send(**args)
DoSend(args, net) ==
    /\ Size(sent_emails) < MaxEmails
    /\ LET r == Send(Mailer, args, net)
       IN  /\ Commit(r)
           /\ last' = Call("send", [args |-> args], r)
    /\ UNCHANGED <<builder, built, workers>>

\* mailer.send_template(template_id, to, context)
DoSendTemplate(template_id, context, net) ==
    /\ template_id \in DOMAIN templates => Size(sent_emails) < MaxEmails
    /\ LET r == SendTemplate(Mailer, template_id, WelcomeTo,
                             context, NoKwargs, net)
       IN  /\ Commit(r)
           /\ last' = Call("send_template", [template_id |-> template_id], r)
    /\ UNCHANGED <<builder, built, workers>>

\* mailer.send_bulk(emails)
DoSendBulk(emails, nets) ==
    /\ Len(emails) = Len(nets)
    /\ Size(sent_emails) + Len(emails) <= MaxEmails
    /\ LET r == SendBulk(Mailer, emails, nets)
       IN  /\ Commit(r)
           /\ last' = Call("send_bulk", [emails |-> emails], r)
    /\ UNCHANGED <<builder, built, workers>>

\* mailer.get_email(email_id)
DoGetEmail(email_id) ==
    /\ Commit(Returned(Mailer, None, 0))
    /\ last' = Call("get_email", [email_id |-> email_id],
                    Returned(Mailer, GetEmail(Mailer, email_id), 0))
    /\ UNCHANGED <<builder, built, workers>>

\* mailer.stats()
DoStats ==
    /\ Commit(Returned(Mailer, None, 0))
    /\ last' = Call("stats", None, Returned(Mailer, Stats(Mailer), 0))
    /\ UNCHANGED <<builder, built, workers>>

Next ==
    \/ \E event \in HookEvents, handler \in Handlers : DoAddHook(event, handler)
    \/ DoRegisterTemplate(Welcome)
    \/ \E args \in SendArgs, net \in NetOutcomes : DoSend(args, net)
    \/ \E template_id \in TemplateIds, context \in {WelcomeContext}, net \in NetOutcomes :
          DoSendTemplate(template_id, context, net)
    \/ \E k \in 0..MaxBulk :
          \E emails \in [1..k -> BulkArgs], nets \in [1..k -> NetOutcomes] :
              DoSendBulk(emails, nets)
    \/ \E email_id \in DOMAIN sent_emails \cup {0} : DoGetEmail(email_id)
    \/ DoStats

Spec == Init /\ [][Next]_vars

----------------------------------------------------------------------------
(* send with keyword arguments that name fields of Email *)

\* The keyword arguments a caller adds to a send: a status, an error, a
\* sent_at of the Email, an id, which Email(...) is given by send already,
\* and a subject, which send is given already.
LifecycleKwargs ==
    {[status |-> SENT], [status |-> FAILED], [error |-> Str("old error")],
     [sent_at |-> Earlier], [id |-> Str("mine")], [subject |-> <<Lit("X")>>]}

\* send(to=["alice@example.com"], subject="Hello!", body_text=..., **kwargs)
KwargsArgs ==
    {Args(<<Str("alice@example.com")>>, <<Lit("Hello!")>>,
          <<Lit("This is a test email.")>>, <<>>, kwargs) :
        kwargs \in LifecycleKwargs}

\* A send that raises stores nothing, so the sends are counted by the
\* uuid4() calls made, two a send.
NextKwargs ==
    \/ \E event \in HookEvents, handler \in Handlers : DoAddHook(event, handler)
    \/ \E args \in KwargsArgs, net \in NetOutcomes :
          uuids < MaxEmails + MaxEmails /\ DoSend(args, net)
    \/ \E email_id \in DOMAIN sent_emails \cup {0} : DoGetEmail(email_id)
    \/ DoStats

SpecKwargs == Init /\ [][NextKwargs]_vars

----------------------------------------------------------------------------
(* EmailBuilder *)

\* dataclass Attachment
Attachment(filename, content, content_type) ==
    [kind |-> "Attachment", filename |-> filename, content |-> content,
     content_type |-> content_type]

\* EmailBuilder.to / cc / bcc with one address
BuilderTo(b, addr) == [b EXCEPT !.to = Append(@, EmailAddress(addr, ""))]
BuilderCc(b, addr) == [b EXCEPT !.cc = Append(@, EmailAddress(addr, ""))]
BuilderBcc(b, addr) == [b EXCEPT !.bcc = Append(@, EmailAddress(addr, ""))]

\* EmailBuilder.from_address / reply_to
BuilderFromAddress(b, email, name) == [b EXCEPT !.from = EmailAddress(email, name)]
BuilderReplyTo(b, email, name) == [b EXCEPT !.reply_to = EmailAddress(email, name)]

\* EmailBuilder.subject / text / html
BuilderSubject(b, subject) == [b EXCEPT !.subject = subject]
BuilderText(b, body) == [b EXCEPT !.body_text = body]
BuilderHtml(b, body) == [b EXCEPT !.body_html = body]

\* EmailBuilder.attach
BuilderAttach(b, filename, content, content_type) ==
    [b EXCEPT !.attachments = Append(@, Attachment(filename, content, content_type))]

\* EmailBuilder.build: the keyword arguments of Mailer.send; to holds the
\* bare addresses, and from_addr and reply_to are there whether set or not.
Build(b) ==
    Args([i \in 1..Len(b.to) |-> Str(b.to[i].email)], b.subject, b.body_text,
         b.body_html,
         [cc |-> b.cc, bcc |-> b.bcc, from_addr |-> b.from,
          reply_to |-> b.reply_to, attachments |-> b.attachments])

\* How many values the builder holds.
Filled(b) ==
    Len(b.to) + Len(b.cc) + Len(b.bcc) + Len(b.attachments)
    + (IF b.subject = <<>> THEN 0 ELSE 1) + (IF b.body_text = <<>> THEN 0 ELSE 1)
    + (IF b.body_html = <<>> THEN 0 ELSE 1) + (IF b.from = None THEN 0 ELSE 1)
    + (IF b.reply_to = None THEN 0 ELSE 1)

\* An object that holds the lists _cc, _bcc and _attachments of the builder,
\* seen after the builder became b: cc and bcc extend those lists and attach
\* appends to one in place, and build() returns the lists themselves.
Shares(holder, b) ==
    [holder EXCEPT !.cc = b.cc, !.bcc = b.bcc, !.attachments = b.attachments]

\* The last call was a send of an Email that holds the builder's lists.
LastIsBuilt ==
    /\ last.op = "send"
    /\ last.result.kind = "Email"
    /\ last.result.id \in built

\* One call of a setter of the builder. The Emails made from this builder
\* hold its lists, so they change with them: in the message table, and in the
\* arguments and the result of the call that made the last of them.
Set(b) ==
    /\ Filled(builder) < MaxFields
    /\ builder' = b
    /\ sent_emails' = [id \in DOMAIN sent_emails |->
                          IF id \in built THEN Shares(sent_emails[id], b)
                          ELSE sent_emails[id]]
    /\ last' = IF LastIsBuilt
               THEN [last EXCEPT !.result = Shares(@, b),
                                 !.input.args.kwargs = Shares(@, b)]
               ELSE last
    /\ UNCHANGED <<transport, default_from, templates, hooks,
                   transport_sent, uuids, built, workers>>

\* builder = EmailBuilder(): a builder with lists of its own, which no Email
\* holds yet.
DoNewBuilder ==
    /\ builder' = NewBuilder
    /\ built' = {}
    /\ UNCHANGED <<transport, default_from, templates, sent_emails, hooks,
                   transport_sent, uuids, workers, last>>

DoBuilderTo == Set(BuilderTo(builder, "charlie@example.com"))
DoBuilderCc == Set(BuilderCc(builder, "manager@example.com"))
DoBuilderBcc == Set(BuilderBcc(builder, "audit@example.com"))
DoBuilderFromAddress == Set(BuilderFromAddress(builder, "ops@example.com", "Ops"))
DoBuilderReplyTo == Set(BuilderReplyTo(builder, "help@example.com", ""))
DoBuilderSubject == Set(BuilderSubject(builder, <<Lit("Monthly Report")>>))
DoBuilderText == Set(BuilderText(builder, <<Lit("Please find the report attached.")>>))
DoBuilderHtml == Set(BuilderHtml(builder, <<Lit("<p>Please find the report attached.</p>")>>))
DoBuilderAttach ==
    Set(BuilderAttach(builder, "report.txt", "Report content here", "text/plain"))

\* mailer.send(**builder.build()): the Email is constructed with the lists
\* that build() hands over, which are the builder's own.
DoSendBuilt(net) ==
    /\ Size(sent_emails) < MaxBuilt
    /\ LET r == Send(Mailer, Build(builder), net)
       IN  /\ Commit(r)
           /\ last' = Call("send", [args |-> Build(builder)], r)
           /\ built' = IF r.raised THEN built ELSE built \cup {r.result.id}
    /\ UNCHANGED <<builder, workers>>

NextBuilder ==
    \/ DoNewBuilder
    \/ DoBuilderTo
    \/ DoBuilderCc
    \/ DoBuilderBcc
    \/ DoBuilderFromAddress
    \/ DoBuilderReplyTo
    \/ DoBuilderSubject
    \/ DoBuilderText
    \/ DoBuilderHtml
    \/ DoBuilderAttach
    \/ \E net \in NetOutcomes : DoSendBuilt(net)

SpecBuilder == Init /\ [][NextBuilder]_vars

----------------------------------------------------------------------------
(* Mailer.send_async: send on the threads of the default executor *)
(*                                                                         *)
(* No lock is held in send, so the threads may be switched between any two *)
(* of its statements: a thread takes one statement of send per step, and   *)
(* one iteration of the loop of _emit per step.                            *)

\* The worker w with its fields changed as `change` says.
Worker(w, change) ==
    [workers EXCEPT ![w] = [f \in DOMAIN @ |->
                               IF f \in DOMAIN change THEN change[f] ELSE @[f]]]

\* The event whose handlers a thread calls at each of the three _emit calls.
EmitEvent(pc) ==
    IF pc = "emit_before_send" THEN "before_send"
    ELSE IF pc = "emit_after_send" THEN "after_send"
    ELSE "on_error"

\* The statement that follows each _emit call.
AfterEmit(pc) ==
    IF pc = "emit_before_send" THEN "set_sending" ELSE "store"

\* await mailer.send_async(**args): the lambda that calls send is handed to
\* the executor. The calls are numbered in the order they are made.
DoSendAsync(w, args) ==
    /\ workers[w].pc = "idle"
    /\ \A v \in Workers : v < w => workers[v].pc # "idle"
    /\ workers' = Worker(w, [pc |-> "draw_id", args |-> args])
    /\ UNCHANGED <<transport, default_from, templates, sent_emails, hooks,
                   transport_sent, uuids, builder, built, last>>

\* The thread calls self.send(*args, **kwargs): a call that does not bind
\* raises and ends there; otherwise the thread comes to
\* id=str(uuid.uuid4())[:12], the first argument of Email(...).
WorkerDrawId(w) ==
    /\ workers[w].pc = "draw_id"
    /\ IF Binds(SendParams, workers[w].args.kwargs)
       THEN /\ workers' = Worker(w, [pc |-> "construct", id |-> NewId(uuids)])
            /\ uuids' = uuids + 1
       ELSE /\ workers' = Worker(w, [pc |-> "raised"])
            /\ uuids' = uuids
    /\ UNCHANGED <<transport, default_from, templates, sent_emails, hooks,
                   transport_sent, builder, built, last>>

\* tracking_id=str(uuid.uuid4())[:8] and the rest of Email(...): the second
\* uuid4() call, then the Email is constructed, or Email(...) raises and the
\* exception ends the call.
WorkerConstruct(w) ==
    /\ workers[w].pc = "construct"
    /\ workers' = IF Accepted(workers[w].args.kwargs)
                  THEN Worker(w, [pc |-> "emit_before_send", i |-> 0,
                                  email |-> ConstructWith(workers[w].args, default_from,
                                                          workers[w].id, NewId(uuids))])
                  ELSE Worker(w, [pc |-> "raised"])
    /\ uuids' = uuids + 1
    /\ UNCHANGED <<transport, default_from, templates, sent_emails, hooks,
                   transport_sent, builder, built, last>>

\* One turn of `for handler in self.hooks.get(event, [])` in _emit: the list
\* is read as it is now; with a handler left, the handler is called (what it
\* raises is caught and logged), and without one the loop and _emit end.
WorkerEmit(w) ==
    /\ workers[w].pc \in {"emit_before_send", "emit_after_send", "emit_on_error"}
    /\ LET event == EmitEvent(workers[w].pc)
           i == workers[w].i
       IN  workers' =
              IF i < Len(hooks[event])
              THEN Worker(w, [i |-> i + 1,
                              trace |-> Append(workers[w].trace,
                                               HookCall(event, i + 1, hooks[event][i + 1],
                                                        workers[w].email))])
              ELSE Worker(w, [pc |-> AfterEmit(workers[w].pc), i |-> 0])
    /\ UNCHANGED <<transport, default_from, templates, sent_emails, hooks,
                   transport_sent, uuids, builder, built, last>>

\* email.status = EmailStatus.SENDING
WorkerSetSending(w) ==
    /\ workers[w].pc = "set_sending"
    /\ workers' = Worker(w, [pc |-> "transport", email |-> Started(workers[w].email)])
    /\ UNCHANGED <<transport, default_from, templates, sent_emails, hooks,
                   transport_sent, uuids, builder, built, last>>

\* self.transport.send(email): it returns, or raises into the except clause.
WorkerTransport(w, net) ==
    /\ workers[w].pc = "transport"
    /\ LET email == workers[w].email
           outcome == TransportSend(transport, email, net)
       IN  /\ transport_sent' = Append(transport_sent, Received(email, outcome))
           /\ workers' = Worker(w, [pc |-> IF outcome.ok THEN "set_sent" ELSE "set_failed",
                                    err |-> outcome.error,
                                    trace |-> Append(workers[w].trace,
                                                     TransportCall(email, outcome))])
    /\ UNCHANGED <<transport, default_from, templates, sent_emails, hooks,
                   uuids, builder, built, last>>

\* email.status = EmailStatus.SENT
WorkerSetSent(w) ==
    /\ workers[w].pc = "set_sent"
    /\ workers' = Worker(w, [pc |-> "set_sent_at",
                             email |-> [workers[w].email EXCEPT !.status = SENT]])
    /\ UNCHANGED <<transport, default_from, templates, sent_emails, hooks,
                   transport_sent, uuids, builder, built, last>>

\* email.sent_at = datetime.now()
WorkerSetSentAt(w) ==
    /\ workers[w].pc = "set_sent_at"
    /\ workers' = Worker(w, [pc |-> "emit_after_send", i |-> 0,
                             email |-> [workers[w].email EXCEPT !.sent_at = Now]])
    /\ UNCHANGED <<transport, default_from, templates, sent_emails, hooks,
                   transport_sent, uuids, builder, built, last>>

\* except Exception as e: email.status = EmailStatus.FAILED
WorkerSetFailed(w) ==
    /\ workers[w].pc = "set_failed"
    /\ workers' = Worker(w, [pc |-> "set_error",
                             email |-> [workers[w].email EXCEPT !.status = FAILED]])
    /\ UNCHANGED <<transport, default_from, templates, sent_emails, hooks,
                   transport_sent, uuids, builder, built, last>>

\* email.error = str(e)
WorkerSetError(w) ==
    /\ workers[w].pc = "set_error"
    /\ workers' = Worker(w, [pc |-> "emit_on_error", i |-> 0,
                             email |-> [workers[w].email EXCEPT
                                           !.error = Str(workers[w].err)]])
    /\ UNCHANGED <<transport, default_from, templates, sent_emails, hooks,
                   transport_sent, uuids, builder, built, last>>

\* self.sent_emails[email.id] = email. The dict store is one atomic step of
\* the interpreter.
WorkerStore(w) ==
    /\ workers[w].pc = "store"
    /\ sent_emails' = Store(sent_emails, workers[w].email)
    /\ workers' = Worker(w, [pc |-> "return"])
    /\ UNCHANGED <<transport, default_from, templates, hooks,
                   transport_sent, uuids, builder, built, last>>

\* return email: the call is complete and its future resolves to the email.
WorkerReturn(w) ==
    /\ workers[w].pc = "return"
    /\ workers' = Worker(w, [pc |-> "done", result |-> workers[w].email])
    /\ UNCHANGED <<transport, default_from, templates, sent_emails, hooks,
                   transport_sent, uuids, builder, built, last>>

NextAsync ==
    \/ \E event \in HookEvents, handler \in Handlers :
          HookCount(hooks) < MaxAsyncHooks /\ DoAddHook(event, handler)
    \/ \E w \in Workers, args \in AsyncArgs : DoSendAsync(w, args)
    \/ \E w \in Workers : WorkerDrawId(w)
    \/ \E w \in Workers : WorkerConstruct(w)
    \/ \E w \in Workers : WorkerEmit(w)
    \/ \E w \in Workers : WorkerSetSending(w)
    \/ \E w \in Workers, net \in NetOutcomes : WorkerTransport(w, net)
    \/ \E w \in Workers : WorkerSetSent(w)
    \/ \E w \in Workers : WorkerSetSentAt(w)
    \/ \E w \in Workers : WorkerSetFailed(w)
    \/ \E w \in Workers : WorkerSetError(w)
    \/ \E w \in Workers : WorkerStore(w)
    \/ \E w \in Workers : WorkerReturn(w)

SpecAsync == Init /\ [][NextAsync]_vars

----------------------------------------------------------------------------
(* Reading the record of the last call *)

\* The last call went through Mailer.send once: a send, or a send_template
\* with a registered template.
IsSend ==
    \/ last.op = "send"
    \/ last.op = "send_template" /\ last.input.template_id \in DOMAIN templates

IsHookOf(event, c) == c.kind = "hook" /\ c.event = event

IsTransport(c) == c.kind = "transport"

\* The invocations of the hooks of one event in a trace, in order.
EventCalls(trace, event) == SelectSeq(trace, LAMBDA c : IsHookOf(event, c))

\* The invocations of transport.send in a trace, in order.
TransportCalls(trace) == SelectSeq(trace, IsTransport)

\* Every handler registered for the event, in registration order, each called
\* once with the email of the given id in the given status.
AllHandlersInOrder(event, id, status) ==
    [i \in 1..Len(hooks[event]) |->
        [kind |-> "hook", event |-> event, index |-> i,
         handler |-> hooks[event][i], id |-> id, status |-> status,
         raises |-> HandlerRaises(hooks[event][i]), error |-> ""]]

\* The number of transport calls that returned, and that raised.
Delivered == Len(SelectSeq(transport_sent, LAMBDA c : c.ok))
Refused == Len(SelectSeq(transport_sent, LAMBDA c : ~c.ok))

----------------------------------------------------------------------------
(* C1 *)

\* C1: whatever the transport and the hooks do, the Email that send returns
\* has status sent or failed, never pending or sending, and send does return
\* an Email; the same holds of every Email in the list send_bulk returns.
C1_FinalStatusSentOrFailed ==
    /\ IsSend =>
          /\ ~last.raised
          /\ last.result.kind = "Email"
          /\ last.result.status \in {SENT, FAILED}
    /\ last.op = "send_bulk" =>
          /\ ~last.raised
          /\ \A i \in 1..Len(last.result.items) :
                last.result.items[i].status \in {SENT, FAILED}

\* A send whose transport raised while a raising hook was registered on
\* on_error.
C1_Witness ==
    /\ IsSend
    /\ last.result.status = FAILED
    /\ \E i \in 1..Len(hooks["on_error"]) : HandlerRaises(hooks["on_error"][i])

----------------------------------------------------------------------------
(* C2 *)

\* C2: when the transport raises during send, send returns an Email with
\* status failed and error set to the error's description, every on_error hook
\* is called and no after_send hook is, and the Email is in the message table
\* under its id.
C2_TransportErrorIsRecorded ==
    IsSend =>
       LET t == TransportCalls(last.trace)
       IN  (Len(t) = 1 /\ t[1].raises) =>
              /\ ~last.raised
              /\ last.result.kind = "Email"
              /\ last.result.status = FAILED
              /\ last.result.error = Str(t[1].error)
              /\ EventCalls(last.trace, "on_error")
                    = AllHandlersInOrder("on_error", last.result.id, FAILED)
              /\ EventCalls(last.trace, "after_send") = <<>>
              /\ last.result.id \in DOMAIN sent_emails
              /\ sent_emails[last.result.id] = last.result

\* A send whose transport raised, with hooks on on_error and on after_send.
C2_Witness ==
    /\ IsSend
    /\ Len(TransportCalls(last.trace)) = 1
    /\ TransportCalls(last.trace)[1].raises
    /\ hooks["on_error"] # <<>>
    /\ hooks["after_send"] # <<>>

----------------------------------------------------------------------------
(* C3 *)

\* The step is a send_template call with a template id that is not registered.
UnknownTemplateCall ==
    /\ last'.op = "send_template"
    /\ last'.input.template_id \notin DOMAIN templates

\* C3: send_template with an unregistered template id returns None, calls
\* neither the transport nor any hook, and leaves the message table as it was
\* (and with it the templates, the hooks and the id source).
C3_UnknownTemplateChangesNothing ==
    [][UnknownTemplateCall =>
          /\ last'.result = None
          /\ ~last'.raised
          /\ last'.trace = <<>>
          /\ transport_sent' = transport_sent
          /\ sent_emails' = sent_emails
          /\ DOMAIN sent_emails' = DOMAIN sent_emails
          /\ UNCHANGED <<templates, hooks, uuids>>]_vars

\* send_template with an unregistered id has returned None on a mailer that
\* holds emails and hooks.
C3_Witness ==
    /\ last.op = "send_template"
    /\ last.input.template_id \notin DOMAIN templates
    /\ last.result = None
    /\ Size(sent_emails) > 0
    /\ HookCount(hooks) > 0

----------------------------------------------------------------------------
(* C4 *)

\* C4: with N transport calls that returned and M that raised so far, stats()
\* is total = N + M, sent = N, failed = M, pending = 0 between any two calls,
\* so total = sent + failed; and that is what a stats() call returns.
C4_StatsCountOutcomes ==
    /\ Stats(Mailer).total = Delivered + Refused
    /\ Stats(Mailer).sent = Delivered
    /\ Stats(Mailer).failed = Refused
    /\ Stats(Mailer).pending = 0
    /\ Stats(Mailer).total = Stats(Mailer).sent + Stats(Mailer).failed
    /\ last.op = "stats" =>
          /\ last.result.total = Delivered + Refused
          /\ last.result.sent = Delivered
          /\ last.result.failed = Refused
          /\ last.result.pending = 0

\* stats() has been called after at least one successful and one failed send.
C4_Witness ==
    /\ last.op = "stats"
    /\ Delivered >= 1
    /\ Refused >= 1
    /\ last.result.total = Delivered + Refused

----------------------------------------------------------------------------
(* C5 *)

\* C5: in a send, an exception of a hook stays in _emit: send does not raise,
\* all before_send hooks are called, the transport is called once whatever
\* they did, then all after_send hooks (transport returned) or all on_error
\* hooks (transport raised) are called, raising ones or not; the status is
\* sent exactly when the transport returned, and a raising after_send hook
\* causes no on_error call.
C5_HookExceptionsAreContained ==
    IsSend =>
       LET t == TransportCalls(last.trace)
           id == last.result.id
       IN  /\ ~last.raised
           /\ last.result.kind = "Email"
           /\ EventCalls(last.trace, "before_send")
                 = AllHandlersInOrder("before_send", id, PENDING)
           /\ Len(t) = 1
           /\ t[1].raises =>
                 /\ last.result.status = FAILED
                 /\ EventCalls(last.trace, "on_error")
                       = AllHandlersInOrder("on_error", id, FAILED)
                 /\ EventCalls(last.trace, "after_send") = <<>>
           /\ ~t[1].raises =>
                 /\ last.result.status = SENT
                 /\ last.result.error = None
                 /\ EventCalls(last.trace, "after_send")
                       = AllHandlersInOrder("after_send", id, SENT)
                 /\ EventCalls(last.trace, "on_error") = <<>>

\* A successful send with a raising hook registered on after_send before
\* another hook.
C5_Witness ==
    /\ IsSend
    /\ last.result.status = SENT
    /\ Len(hooks["after_send"]) = 2
    /\ HandlerRaises(hooks["after_send"][1])
    /\ ~HandlerRaises(hooks["after_send"][2])

----------------------------------------------------------------------------
(* C6 *)

\* The status a callee of send may see: before_send hooks pending, the
\* transport sending, after_send hooks sent, on_error hooks failed.
SeesRightStatus(c) ==
    /\ IsHookOf("before_send", c) => c.status = PENDING
    /\ IsTransport(c) => c.status = SENDING
    /\ IsHookOf("after_send", c) => c.status = SENT
    /\ IsHookOf("on_error", c) => c.status = FAILED

\* Of one email, the invocations of a trace come in the order before_send
\* hooks, transport, then after_send or on_error hooks.
Stage(c) ==
    IF IsHookOf("before_send", c) THEN 1 ELSE IF IsTransport(c) THEN 2 ELSE 3

StagesInOrder(trace) ==
    \A i, j \in 1..Len(trace) :
        (i < j /\ trace[i].id = trace[j].id) => Stage(trace[i]) <= Stage(trace[j])

\* The Email of the last send was constructed with status pending.
ConstructedPending ==
    (last.op = "send" /\ last.result.kind = "Email") =>
        Construct(last.input.args, default_from, 0).status = PENDING

\* The statuses seen during the last call and those stored are forward ones.
StatusesAreForward ==
    /\ ConstructedPending
    /\ \A i \in 1..Len(last.trace) : SeesRightStatus(last.trace[i])
    /\ StagesInOrder(last.trace)
    /\ \A id \in DOMAIN sent_emails : sent_emails[id].status \in {SENT, FAILED}

\* No step takes a stored email out of the table or changes its status.
StoredStatusStays ==
    \A id \in DOMAIN sent_emails :
        /\ id \in DOMAIN sent_emails'
        /\ sent_emails'[id].status = sent_emails[id].status

\* C6: the status moves pending -> sending -> sent or failed within a send
\* (the Email starts pending, and the hooks and the transport see it so), and
\* no later operation changes the status of an email that is sent or failed.
C6_StatusOnlyMovesForward ==
    [](StatusesAreForward) /\ [][StoredStatusStays]_vars

----
(* C7 *)

\* C7: a successful send calls the after_send hooks in registration order,
\* once each, each with the email that send returns, its status already sent.
C7_AfterSendHooksInOrder ==
    (IsSend /\ last.result.kind = "Email" /\ last.result.status = SENT) =>
       /\ EventCalls(last.trace, "after_send")
             = AllHandlersInOrder("after_send", last.result.id, SENT)
       /\ last.result.sent_at # None

\* A successful send with h1 then h2 registered on after_send.
C7_Witness ==
    /\ IsSend
    /\ last.result.status = SENT
    /\ hooks["after_send"] = <<"h1", "h2">>

----------------------------------------------------------------------------
(* C8 *)

\* C8: send_bulk over K argument sets returns K emails, the i-th made from the
\* i-th argument set, whether the sends succeed or fail, and every one of
\* them is in the message table, each under an id of its own.
C8_BulkReturnsAllInOrder ==
    last.op = "send_bulk" =>
       LET emails == last.input.emails
           items == last.result.items
       IN  /\ ~last.raised
           /\ Len(items) = Len(emails)
           /\ \A i \in 1..Len(items) :
                 /\ items[i].kind = "Email"
                 /\ items[i].to = Recipients(emails[i].to)
                 /\ items[i].subject = emails[i].subject
                 /\ items[i].body_text = emails[i].body_text
                 /\ items[i].id \in DOMAIN sent_emails
                 /\ sent_emails[items[i].id] = items[i]
           /\ \A i, j \in 1..Len(items) : i # j => items[i].id # items[j].id
           /\ Len(TransportCalls(last.trace)) = Len(emails)

\* A bulk send of two different argument sets of which the first failed and
\* the second succeeded.
C8_Witness ==
    /\ last.op = "send_bulk"
    /\ Len(last.result.items) = 2
    /\ last.input.emails[1] # last.input.emails[2]
    /\ last.result.items[1].status = FAILED
    /\ last.result.items[2].status = SENT

----------------------------------------------------------------------------
(* C9 *)

\* The from_addr the caller of the last send supplied, None when none was.
SuppliedFrom ==
    KwGet(last.input.args.kwargs, "from_addr", None)

\* C9: the Email of a send has the caller's from address when one was
\* supplied and the mailer's default otherwise, also when the arguments come
\* from EmailBuilder.build() on a builder whose from_address was never called.
C9_FromAddressDefaults ==
    (last.op = "send" /\ last.result.kind = "Email") =>
       /\ last.result.from_addr # None
       /\ last.result.from_addr =
             IF SuppliedFrom # None THEN SuppliedFrom ELSE default_from

----------------------------------------------------------------------------
(* C10 *)

\* The calls that have drawn the id of their Email.
HasId == {w \in Workers : workers[w].pc \notin {"idle", "draw_id"}}

\* The calls that have written the message table.
Stored == {w \in Workers : workers[w].pc \in {"return", "done"}}

\* The calls that have completed.
Done == {w \in Workers : workers[w].pc = "done"}

\* The send of w went before_send hooks, one transport call, then after_send
\* or on_error hooks, all on its own Email.
RanWholePipeline(w) ==
    LET trace == workers[w].trace
        t == TransportCalls(trace)
    IN  /\ \A i \in 1..Len(trace) :
              trace[i].id = workers[w].email.id /\ SeesRightStatus(trace[i])
        /\ StagesInOrder(trace)
        /\ Len(t) = 1
        /\ workers[w].email.status = IF t[1].raises THEN FAILED ELSE SENT
        /\ workers[w].email.to = Recipients(workers[w].args.to)
        /\ workers[w].email.subject = workers[w].args.subject

\* C10: in any interleaving of concurrent send_async calls every call has an
\* Email of its own, writes the message table once, as its last step, after
\* the transport call and the hooks, and resolves to that Email; no insertion
\* is lost: the table holds exactly the Emails of the calls that have written
\* it, and stats().total is the number of calls once all have completed.
C10_ConcurrentSendsLoseNothing ==
    /\ \A v, w \in HasId : v # w => workers[v].id # workers[w].id
    /\ \A w \in HasId \ Stored : workers[w].id \notin DOMAIN sent_emails
    /\ DOMAIN sent_emails = {workers[w].id : w \in Stored}
    /\ \A w \in Stored :
          /\ workers[w].email.id = workers[w].id
          /\ sent_emails[workers[w].id] = workers[w].email
          /\ RanWholePipeline(w)
    /\ \A w \in Done : workers[w].result = workers[w].email
    /\ Stats(Mailer).total = Cardinality(Stored)
    /\ Done = Workers => Stats(Mailer).total = NumWorkers

\* All calls have completed, the second having drawn its id between the two
\* uuid4() calls of the first and the first having reached the transport
\* before the second, one sent and one failed.
C10_Witness ==
    /\ Done = Workers
    /\ workers[2].result.id < workers[1].result.tracking_id
    /\ workers[1].result.id < workers[2].result.id
    /\ transport_sent[1].id = workers[1].result.id
    /\ workers[1].result.status # workers[2].result.status
    /\ HookCount(hooks) > 0

====
